---- MODULE Spec2Model ----
(***************************************************************************)
(* uHTTP (src/uhttp.py): the MultiDict / Headers containers, the Response  *)
(* value object and its coercion, the streaming Body reader, and the ASGI  *)
(* application App.__call__ (lifespan loop and per-request pipeline).      *)
(*                                                                         *)
(* Text (str) and byte strings are sequences of one-character strings; a   *)
(* Python dict is a sequence of [key, value] entries with distinct keys,   *)
(* in insertion order.                                                     *)
(***************************************************************************)
EXTENDS Integers, Sequences, FiniteSets, TLC

\* ------------------------------------------------------------------ bounds
MaxRouteCalls == 2      \* calls of App.route() before startup
MaxHooks == 2           \* hooks registered with App.before and App.after together
MaxEvents == 2          \* http.request events the transport delivers for one body
MaxContentChoice == 0   \* max_content is chosen in 0..MaxContentChoice
MaxLifespanHooks == 2   \* startup hooks registered, and shutdown hooks registered
MaxReads == 3           \* read() calls made on one Body
MaxOps == 3             \* operations applied to one MultiDict
MaxHeaderOps == 2       \* operations applied to one Headers
MaxText == 3            \* length of a str or bytes handed to Response.from_any
MaxStateWrites == 2     \* writes one http call's hooks and handler make to request.state

\* ------------------------------------------------------- text and bytes
Last(s) == s[Len(s)]

\* str.lower(), on the letters the model uses
LowerChar(c) ==
    CASE c = "A" -> "a"
      [] c = "B" -> "b"
      [] c = "C" -> "c"
      [] c = "L" -> "l"
      [] c = "T" -> "t"
      [] OTHER -> c

Lower(s) == [i \in DOMAIN s |-> LowerChar(s[i])]

\* str.encode(): UTF-8; one byte per ASCII character, two for U+00E9 (written "U+00E9")
EncodeChar(c) == IF c = "U+00E9" THEN <<"xC3", "xA9">> ELSE <<c>>

RECURSIVE Encode(_)
Encode(s) == IF s = <<>> THEN <<>> ELSE EncodeChar(Head(s)) \o Encode(Tail(s))

\* ---------------------------------------------------------- Python dict
dict_contains(d, k) == \E i \in DOMAIN d : d[i].key = k

dict_index(d, k) == CHOOSE i \in DOMAIN d : d[i].key = k

dict_get(d, k, default) ==
    IF dict_contains(d, k) THEN d[dict_index(d, k)].value ELSE default

dict_setitem(d, k, v) ==
    IF dict_contains(d, k)
    THEN [d EXCEPT ![dict_index(d, k)].value = v]
    ELSE Append(d, [key |-> k, value |-> v])

dict_setdefault(d, k, default) ==
    IF dict_contains(d, k) THEN d ELSE Append(d, [key |-> k, value |-> default])

dict_delete(d, k) == SelectSeq(d, LAMBDA e : e.key # k)

RECURSIVE dict_update(_, _)
dict_update(d, other) ==
    IF other = <<>> THEN d
    ELSE dict_update(dict_setitem(d, Head(other).key, Head(other).value), Tail(other))

dict_keys(d) == [i \in DOMAIN d |-> d[i].key]

\* ------------------------------------------------------- Python objects
\* values whose type the code tests or relies on, tagged with that type
NoneValue == [type |-> "NoneType"]
IntValue(n) == [type |-> "int", int |-> n]
StrValue(s) == [type |-> "str", str |-> s]
BytesValue(b) == [type |-> "bytes", bytes |-> b]
DictValue(d) == [type |-> "dict", dict |-> d]
ListOf(items) == [type |-> "list", items |-> items]
\* a non-empty list, as a handler may return it
ListValue == [type |-> "list"]

\* x[-1]: the last item of a list, the last character of a str
index_last(x) ==
    CASE x.type = "list" /\ x.items # <<>> -> [raised |-> "", value |-> Last(x.items)]
      [] x.type = "str" /\ x.str # <<>> -> [raised |-> "", value |-> StrValue(<<Last(x.str)>>)]
      [] x.type \in {"list", "str"} -> [raised |-> "IndexError"]
      [] OTHER -> [raised |-> "TypeError"]

\* ------------------------------------------------------------ MultiDict
\* None, where it stands among MultiDict values (which are text in the model)
None == "None"

\* the default argument (None,) of _get, _pop and _setdefault, as list(default)
default_list == <<None>>

\* MultiDict(mapping) for a plain dict: each value wrapped in a one-element list
MultiDict_from_dict(mapping) ==
    [i \in DOMAIN mapping |-> [key |-> mapping[i].key, value |-> <<mapping[i].value>>]]

\* a plain dict's d[key] = [value], which forgets the earlier values
MultiDict_setitem_overwrites(d, key, value) == dict_setitem(d, key, <<value>>)

\* MultiDict(mapping) and Headers(mapping) for a MultiDict: mapping.itemslist() is
\* evaluated first, and neither dict nor MultiDict has an attribute of that name
MultiDict_from_MultiDict(mapping) == [raised |-> "AttributeError"]

\* MultiDict(mapping) for a plain dict whose values are lists: each list copied (v[:])
MultiDict_from_dict_of_lists(mapping) == mapping

\* MultiDict(mapping) for a list of (key, value) pairs: each value appended to its key
RECURSIVE MultiDict_from_pairs_onto(_, _)
MultiDict_from_pairs_onto(d, pairs) ==
    IF pairs = <<>> THEN d
    ELSE LET key == Head(pairs)[1]
             d1 == dict_setdefault(d, key, <<>>)
         IN  MultiDict_from_pairs_onto(
                 dict_setitem(d1, key, Append(dict_get(d1, key, <<>>), Head(pairs)[2])),
                 Tail(pairs))

MultiDict_from_pairs(pairs) == MultiDict_from_pairs_onto(<<>>, pairs)

\* d[key] = value
MultiDict_setitem(d, key, value) ==
    LET d1 == dict_setdefault(d, key, <<>>)
    IN  dict_setitem(d1, key, Append(dict_get(d1, key, <<>>), value))

\* d.get(key, default)
MultiDict_get(d, key, default) == Last(dict_get(d, key, <<default>>))

\* d._get(key, default)
MultiDict__get(d, key, default) == dict_get(d, key, default)

\* d.setdefault(key, default): the dict after the call
MultiDict_setdefault(d, key, default) == dict_setdefault(d, key, <<default>>)

\* d.setdefault(key, default): what the call returns
MultiDict_setdefault_result(d, key, default) == Last(dict_get(d, key, <<default>>))

\* d._update(mapping)
MultiDict__update(d, mapping) == dict_update(d, mapping)

\* d._items()
MultiDict__items(d) == d

\* d[key]: the last value, or KeyError
MultiDict_getitem(d, key) ==
    IF dict_contains(d, key)
    THEN [raised |-> "", value |-> Last(dict_get(d, key, <<>>))]
    ELSE [raised |-> "KeyError"]

\* d.pop(key, default): the dict after the call
MultiDict_pop(d, key, default) ==
    LET values == dict_get(d, key, <<>>)
    IN  IF Len(values) > 1
        THEN dict_setitem(d, key, SubSeq(values, 1, Len(values) - 1))
        ELSE dict_delete(d, key)

\* d.pop(key, default): what the call returns (a value, or the whole list)
MultiDict_pop_result(d, key, default) ==
    LET values == dict_get(d, key, <<>>)
    IN  IF Len(values) > 1
        THEN [kind |-> "value", value |-> Last(values)]
        ELSE IF dict_contains(d, key)
             THEN [kind |-> "list", list |-> values]
             ELSE [kind |-> "value", value |-> default]

\* d.update(mapping), mapping a plain dict
MultiDict_update(d, mapping) == dict_update(d, MultiDict_from_dict(mapping))

\* key in d (dict.__contains__, not overridden)
MultiDict_contains(d, key) == dict_contains(d, key)

\* del d[key] (dict.__delitem__, not overridden): the dict after, or KeyError
MultiDict_delitem(d, key) ==
    IF dict_contains(d, key)
    THEN [raised |-> "", d |-> dict_delete(d, key)]
    ELSE [raised |-> "KeyError", d |-> d]

\* -------------------------------------------------------------- Headers
\* Headers derives from MultiDict, so each super() call below is a MultiDict method,
\* which wraps its default in a list and takes [-1] once more: what __setitem__ and
\* Headers(pairs) store under a key is a list holding one list of the values.

\* .append(value) on the object MultiDict.setdefault returned for key k, which is the
\* last item stored under k
append_to_last(d, k, value) ==
    LET values == dict_get(d, k, <<>>)
        target == Last(values)
    IN  IF target.type = "list"
        THEN [raised |-> "",
              d |-> dict_setitem(d, k, [values EXCEPT ![Len(values)] =
                                            ListOf(Append(target.items, value))])]
        ELSE [raised |-> "AttributeError", d |-> d]

\* h[key] = value
Headers_setitem(d, key, value) ==
    append_to_last(MultiDict_setdefault(d, Lower(key), ListOf(<<>>)), Lower(key), value)

\* h[key]
Headers_getitem(d, key) ==
    LET r == MultiDict_getitem(d, Lower(key))
    IN  IF r.raised # "" THEN r ELSE index_last(r.value)

\* h.get(key, default)
Headers_get(d, key, default) ==
    index_last(MultiDict_get(d, Lower(key), ListOf(<<default>>)))

\* h._get(key, default)
Headers__get(d, key, default) == MultiDict_get(d, Lower(key), ListOf(default))

\* h.pop(key, default): the dict after the call and what it returns or raises
Headers_pop(d, key, default) ==
    LET k == Lower(key)
        values == MultiDict_get(d, k, ListOf(<<>>))
        stored == dict_get(d, k, <<>>)
    IN  CASE values.type = "list" /\ Len(values.items) > 1 ->
                [raised |-> "",
                 result |-> [kind |-> "value", value |-> Last(values.items)],
                 d |-> dict_setitem(d, k, [stored EXCEPT ![Len(stored)] =
                          ListOf(SubSeq(values.items, 1, Len(values.items) - 1))])]
          [] values.type = "str" /\ Len(values.str) > 1 ->
                [raised |-> "AttributeError", d |-> d]
          [] values.type \in {"list", "str"} ->
                [raised |-> "",
                 result |-> MultiDict_pop_result(d, k, default),
                 d |-> MultiDict_pop(d, k, default)]
          [] OTHER -> [raised |-> "TypeError", d |-> d]

\* h.setdefault(key, default): the dict after the call and what it returns or raises
Headers_setdefault(d, key, default) ==
    LET r == index_last(MultiDict_setdefault_result(d, Lower(key), ListOf(<<default>>)))
    IN  [raised |-> r.raised, result |-> r,
         d |-> MultiDict_setdefault(d, Lower(key), ListOf(<<default>>))]

\* h._setdefault(key, default): the dict after the call
Headers__setdefault(d, key, default) == MultiDict_setdefault(d, Lower(key), ListOf(default))

\* key in h: Headers does not override __contains__
Headers_contains(d, key) == MultiDict_contains(d, key)

\* del h[key]: Headers does not override __delitem__
Headers_delitem(d, key) == MultiDict_delitem(d, key)

\* h.update(mapping): Headers does not override update
Headers_update(d, mapping) == MultiDict_update(d, mapping)

\* Headers(mapping), mapping a list of [key, value] pairs:
\* self._setdefault(key, []).append(value) for each pair
RECURSIVE Headers_from_pairs_onto(_, _)
Headers_from_pairs_onto(d, pairs) ==
    IF pairs = <<>> THEN d
    ELSE LET key == Head(pairs)[1]
             d1 == Headers__setdefault(d, key, <<>>)
         IN  Headers_from_pairs_onto(append_to_last(d1, Lower(key), Head(pairs)[2]).d,
                                     Tail(pairs))

Headers_from_pairs(pairs) == Headers_from_pairs_onto(<<>>, pairs)

\* Headers(mapping), mapping a plain dict: the comprehension {k.lower(): [v]}
RECURSIVE Headers_lowered(_, _)
Headers_lowered(d, mapping) ==
    IF mapping = <<>> THEN d
    ELSE Headers_lowered(dict_setitem(d, Lower(Head(mapping).key), <<Head(mapping).value>>),
                         Tail(mapping))

\* MultiDict.__init__ copies each list of that dict: the values are stored one level
\* less deep than __setitem__ stores them
Headers_from_dict(mapping) == Headers_lowered(<<>>, mapping)

\* ------------------------------------------------------------- Response
content_type == <<"c", "o", "n", "t", "e", "n", "t", "-", "t", "y", "p", "e">>
content_length == <<"c", "o", "n", "t", "e", "n", "t", "-", "l", "e", "n", "g", "t", "h">>
allow == <<"a", "l", "l", "o", "w">>

\* http.HTTPStatus: the members the model uses
HTTPStatus_values == {200, 201, 204, 400, 404, 405}

\* HTTPStatus(status).phrase
HTTPStatus_phrase(status) ==
    CASE status = 200 -> <<"O", "K">>
      [] status = 201 -> <<"C", "r", "e", "a", "t", "e", "d">>
      [] status = 204 -> <<"N", "o", " ", "C", "o", "n", "t", "e", "n", "t">>
      [] status = 400 -> <<"B", "a", "d", " ", "R", "e", "q", "u", "e", "s", "t">>
      [] status = 404 -> <<"N", "o", "t", " ", "F", "o", "u", "n", "d">>
      [] status = 405 -> <<"M", "e", "t", "h", "o", "d", " ", "N", "o", "t", " ", "A", "l", "l", "o", "w", "e", "d">>

\* Response(status, headers=..., body=...); headers is a plain dict ({} for None)
Response_init(status, headers, body) ==
    LET description ==
            IF status \in HTTPStatus_values THEN HTTPStatus_phrase(status) ELSE <<>>
        hdrs == MultiDict_setdefault(MultiDict_from_dict(headers), content_type,
                                     "text/html; charset=utf-8")
    IN  [status |-> status,
         description |-> description,
         headers |-> hdrs,
         cookies |-> <<>>,
         body |-> IF body = <<>> /\ status \in 400..599
                  THEN Encode(description) ELSE body]

\* ------------------------------------------- values handlers and hooks return
ResponseValue(r) == [type |-> "Response", response |-> r]

\* bool(value), as the walrus tests of the pipeline evaluate it
truthy(v) ==
    CASE v.type = "NoneType" -> FALSE
      [] v.type = "int" -> v.int # 0
      [] v.type = "str" -> v.str # <<>>
      [] v.type = "bytes" -> v.bytes # <<>>
      [] v.type = "dict" -> v.dict # <<>>
      [] OTHER -> TRUE

\* json.dumps of a dict of text keys and text values
RECURSIVE json_dumps_items(_)
json_dumps_items(d) ==
    IF d = <<>> THEN <<>>
    ELSE <<"\"">> \o Head(d).key \o <<"\"", ":", " ", "\"">> \o Head(d).value \o <<"\"">>
         \o (IF Tail(d) = <<>> THEN <<>> ELSE <<",", " ">> \o json_dumps_items(Tail(d)))

json_dumps(d) == <<"{">> \o json_dumps_items(d) \o <<"}">>

\* Response.from_any(any): the response, or the exception the call raises
from_any(any) ==
    CASE any.type = "int" ->
            IF any.int \in HTTPStatus_values
            THEN [ok |-> TRUE,
                  response |-> Response_init(any.int, <<>>,
                                             Encode(HTTPStatus_phrase(any.int)))]
            ELSE [ok |-> FALSE, error |-> "ValueError"]
      [] any.type = "str" ->
            [ok |-> TRUE, response |-> Response_init(200, <<>>, Encode(any.str))]
      [] any.type = "bytes" ->
            [ok |-> TRUE, response |-> Response_init(200, <<>>, any.bytes)]
      [] any.type = "dict" ->
            [ok |-> TRUE,
             response |-> Response_init(200,
                              <<[key |-> content_type, value |-> "application/json"]>>,
                              Encode(json_dumps(any.dict)))]
      [] any.type = "Response" -> [ok |-> TRUE, response |-> any.response]
      [] any.type = "NoneType" -> [ok |-> TRUE, response |-> Response_init(204, <<>>, <<>>)]
      [] OTHER -> [ok |-> FALSE, error |-> "TypeError"]

\* ----------------------------------------------------------------- Body
\* Body(receive)
Body_init == [buffer |-> <<>>, finished |-> FALSE]

\* read(n), lines 211-212: whether the call reaches `await self.receive()`
Body_enters_loop(body) == ~body.finished /\ Len(body.buffer) = 0

\* read(n), lines 214-216: the body after one received event
Body_on_event(body, event) ==
    [buffer |-> body.buffer \o event.body,
     finished |-> body.finished \/ ~event.more_body]

\* read(n), line 212: the loop test after an event
Body_loop_continues(body) == Len(body.buffer) = 0

\* read(n), lines 217-221: the bytes returned
Body_result(body, n) ==
    IF n > 0 /\ n < Len(body.buffer) THEN SubSeq(body.buffer, 1, n) ELSE body.buffer

\* read(n), lines 217-221: the buffer kept for the next call
Body_rest(body, n) ==
    IF n > 0
    THEN [body EXCEPT !.buffer = SubSeq(body.buffer, n + 1, Len(body.buffer))]
    ELSE body

\* ------------------------------------------------------------------- re
\* A pattern is a sequence of tokens: a literal character (the characters { and }
\* around a name are literal, as they form no quantifier), ".*", or the named group
\* "(?P<id>[^/]+)"
id_group == "(?P<id>[^/]+)"

\* whether [^/]+ matches the whole of a text
no_slash(string) == string # <<>> /\ \A i \in DOMAIN string : string[i] # "/"

RECURSIVE re_fullmatch(_, _)
re_fullmatch(pattern, string) ==
    IF pattern = <<>> THEN string = <<>>
    ELSE IF Head(pattern) = ".*"
         THEN \E i \in 0..Len(string) :
                 re_fullmatch(Tail(pattern), SubSeq(string, i + 1, Len(string)))
    ELSE IF Head(pattern) = id_group
         THEN \E i \in 1..Len(string) :
                 /\ no_slash(SubSeq(string, 1, i))
                 /\ re_fullmatch(Tail(pattern), SubSeq(string, i + 1, Len(string)))
         ELSE /\ string # <<>>
              /\ Head(string) = Head(pattern)
              /\ re_fullmatch(Tail(pattern), Tail(string))

\* a match that defines no group at all
groupdict_empty(pattern, string) == <<>>

\* the longest prefix a greedy token takes for the rest of the pattern to match
greedy(pattern, string, lengths) ==
    CHOOSE i \in lengths :
        /\ re_fullmatch(Tail(pattern), SubSeq(string, i + 1, Len(string)))
        /\ Head(pattern) = id_group => no_slash(SubSeq(string, 1, i))
        /\ \A j \in lengths :
              (/\ j > i
               /\ re_fullmatch(Tail(pattern), SubSeq(string, j + 1, Len(string))))
                    => (Head(pattern) = id_group /\ ~no_slash(SubSeq(string, 1, j)))

\* route.fullmatch(path).groupdict(), for a path the pattern matches
RECURSIVE re_groupdict(_, _)
re_groupdict(pattern, string) ==
    IF pattern = <<>> THEN <<>>
    ELSE IF Head(pattern) = ".*"
         THEN LET i == greedy(pattern, string, 0..Len(string))
              IN  re_groupdict(Tail(pattern), SubSeq(string, i + 1, Len(string)))
    ELSE IF Head(pattern) = id_group
         THEN LET i == greedy(pattern, string, 1..Len(string))
              IN  <<[key |-> "id", value |-> SubSeq(string, 1, i)]>>
                  \o re_groupdict(Tail(pattern), SubSeq(string, i + 1, Len(string)))
         ELSE re_groupdict(Tail(pattern), Tail(string))

\* a key of App._routes: the registered text, or (after startup) its compiled pattern
route_key(path) == [pattern |-> path, compiled |-> FALSE]

re_compile(k) == [k EXCEPT !.compiled = TRUE]

\* ------------------------------------------------------- inputs, bounded
RoutePaths == {<<"/", "a">>, <<"/", ".*">>}
RouteMethods == {<<"GET">>, <<"POST">>}
RequestMethods == {"GET", "PUT"}
RequestPaths == {<<"/", "a">>, <<"/", "b">>}
Chunks == {<<>>, <<"x">>}

cookie == <<"c", "o", "o", "k", "i", "e">>

\* scope['headers']: lists of [name bytes, value bytes]; "xFF" is a byte that is
\* neither ASCII nor valid UTF-8; a value is a sequence of pieces of text
ScopeHeaders ==
    { <<>>,
      << <<<<"C", "o", "n", "t", "e", "n", "t", "-", "T", "y", "p", "e">>,
           <<"application/json">>>> >>,
      << <<content_type, <<"application/x-www-form-urlencoded">>>> >>,
      << <<content_type, <<"multipart/form-data", "; boundary=b">>>> >>,
      << <<cookie, <<"a,b=1">>>> >>,
      << <<<<"x", "xFF">>, <<"1">>>> >>,
      << <<<<"x">>, <<"xFF">>>> >> }

\* what a handler or hook may return
ReturnValues ==
    { NoneValue, IntValue(0), IntValue(404), StrValue(<<>>), StrValue(<<"h", "U+00E9">>),
      BytesValue(<<>>), DictValue(<<>>), ListValue,
      ResponseValue(Response_init(201, <<>>, <<"o", "k">>)) }

\* bytes.decode('ascii') / bytes.decode(): whether it raises UnicodeDecodeError
decode_raises(bytes) == \E i \in DOMAIN bytes : bytes[i] = "xFF"

\* SimpleCookie.load(text): whether it raises CookieError (a key with an illegal character)
cookie_load_raises(text) == text = <<"a,b=1">>

\* parse_options_header(value)[0]: the media type before any parameter
parse_options_header(value) == IF value = <<>> THEN "" ELSE Head(value)

\* content_type.split(b'+')[0]
split_plus(ctype) ==
    CASE ctype = "application/json+x" -> "application/json"
      [] ctype = "application/ld+json" -> "application/ld"
      [] OTHER -> ctype

\* ijson's default buf_size, the n of every read(n) it makes
ijson_buf_size == 64 * 1024

\* the texts of at most n characters over an alphabet
Texts(alphabet, n) == UNION { [1..k -> alphabet] : k \in 0..n }

\* the concurrent http calls
Requests == {1, 2}

\* ---------------------------------------------------------------- state
VARIABLES
    routes,         \* App._routes: dict from route key to a dict method -> handler
    startup,        \* App._startup
    shutdown,       \* App._shutdown
    before,         \* App._before
    after,          \* App._after
    max_content,    \* App._max_content
    route_log,      \* the App.route registrations made, in order
    lifespan,       \* the lifespan call: [pc, hook, events]
    lifespan_sent,  \* events the lifespan call has sent
    lifespan_calls, \* startup and shutdown hooks invoked, in order
    state,          \* scope['state'], the keys the lifespan hooks have set
    pc,             \* position of the http call
    hook,           \* index of the next before- or after-hook
    request,        \* the Request
    response,       \* the Response in progress
    origin,         \* the stage that produced response, and the value it coerced
    replaced,       \* the value of the after-hook that replaced the response, if any
    calls,          \* before-hooks, handler and after-hooks invoked, in order, each
                    \* with the kind of value it returned
    sent,           \* frames the http call has sent
    error,          \* the exception that left the http call, if any
    reader,         \* the Body: [body, pc, n, result]
    transport,      \* the request body stream: [delivered, ended, data]
    out,            \* Body: the bytes read() calls have returned, and how many calls
    md,             \* a MultiDict
    md_log,         \* the operations applied to md
    md_ret,         \* what the last MultiDict call returned
    hd,             \* a Headers
    hd_log,         \* the operations applied to hd
    hd_ret,         \* what the last Headers call returned
    fa_any,         \* the value handed to Response.from_any
    fa_ret,         \* what Response.from_any returned or raised for it
    heap,           \* the state dicts: that of the scope, and one per running request
    rq,             \* the concurrent http calls: [pc, state, snapshot, log]
    proc            \* the content the lifespan hooks gave the scope's state

app_vars == <<routes, startup, shutdown, before, after, max_content, route_log>>
lifespan_vars == <<lifespan, lifespan_sent, lifespan_calls, state>>
http_vars == <<pc, hook, request, response, origin, replaced, calls, sent, error>>
body_vars == <<reader, transport, out>>
md_vars == <<md, md_log, md_ret>>
hd_vars == <<hd, hd_log, hd_ret>>
fa_vars == <<fa_any, fa_ret>>
rs_vars == <<heap, rq, proc>>
vars == <<app_vars, lifespan_vars, http_vars, body_vars, md_vars, hd_vars, fa_vars, rs_vars>>

NoRequest == [method |-> "", path |-> <<>>]
NoResponse == [status |-> 0]
NoOrigin == [stage |-> ""]

InitApp ==
    /\ routes = <<>>
    /\ startup = <<>>
    /\ shutdown = <<>>
    /\ before = <<>>
    /\ after = <<>>
    /\ max_content \in 0..MaxContentChoice
    /\ route_log = <<>>

InitLifespan ==
    /\ lifespan = [pc |-> "receive", hook |-> 1, events |-> 0]
    /\ lifespan_sent = <<>>
    /\ lifespan_calls = <<>>
    /\ state = {}

InitHttp ==
    /\ pc = "idle"
    /\ hook = 1
    /\ request = NoRequest
    /\ response = NoResponse
    /\ origin = NoOrigin
    /\ replaced = NoneValue
    /\ calls = <<>>
    /\ sent = <<>>
    /\ error = ""

InitBody ==
    /\ reader = [body |-> Body_init, pc |-> "idle", n |-> 0, result |-> <<>>]
    /\ transport = [delivered |-> 0, ended |-> FALSE, data |-> <<>>]
    /\ out = [data |-> <<>>, reads |-> 0, last |-> <<>>]

InitMultiDict ==
    /\ md = <<>>
    /\ md_log = <<>>
    /\ md_ret = [op |-> ""]

InitHeaders ==
    /\ hd = <<>>
    /\ hd_log = <<>>
    /\ hd_ret = [op |-> ""]

InitFromAny ==
    /\ fa_any = NoneValue
    /\ fa_ret = [called |-> FALSE]

\* scope['state'] is object 0 of the heap; no http call is running
InitState ==
    /\ heap = [o \in {0} |-> <<>>]
    /\ rq = [r \in Requests |-> [pc |-> "idle"]]
    /\ proc = <<>>

Init ==
    /\ InitApp /\ InitLifespan /\ InitHttp /\ InitBody /\ InitMultiDict /\ InitHeaders
    /\ InitFromAny /\ InitState

\* -------------------------------------------------- App: registration
\* App.route(path, methods)(func): func is the next handler
App_route(path, methods) ==
    /\ lifespan.events = 0
    /\ Len(route_log) < MaxRouteCalls
    /\ LET func == Len(route_log) + 1
           k == route_key(path)
           r1 == dict_setdefault(routes, k, <<>>)
           new == [i \in DOMAIN methods |-> [key |-> methods[i], value |-> func]]
       IN  routes' = dict_setitem(r1, k, dict_update(dict_get(r1, k, <<>>), new))
    /\ route_log' = Append(route_log, [path |-> path, methods |-> methods, func |-> Len(route_log) + 1])
    /\ UNCHANGED <<startup, shutdown, before, after, max_content>>
    /\ UNCHANGED <<lifespan_vars, http_vars, body_vars, md_vars, hd_vars, fa_vars, rs_vars>>

\* App.before(func)
App_before ==
    /\ lifespan.events = 0
    /\ Len(before) + Len(after) < MaxHooks
    /\ before' = Append(before, Len(before) + 1)
    /\ UNCHANGED <<routes, startup, shutdown, after, max_content, route_log>>
    /\ UNCHANGED <<lifespan_vars, http_vars, body_vars, md_vars, hd_vars, fa_vars, rs_vars>>

\* App.after(func)
App_after ==
    /\ lifespan.events = 0
    /\ Len(before) + Len(after) < MaxHooks
    /\ after' = Append(after, Len(after) + 1)
    /\ UNCHANGED <<routes, startup, shutdown, before, max_content, route_log>>
    /\ UNCHANGED <<lifespan_vars, http_vars, body_vars, md_vars, hd_vars, fa_vars, rs_vars>>

\* App.startup(func)
App_startup ==
    /\ lifespan.events = 0
    /\ Len(startup) < MaxLifespanHooks
    /\ startup' = Append(startup, Len(startup) + 1)
    /\ UNCHANGED <<routes, shutdown, before, after, max_content, route_log>>
    /\ UNCHANGED <<lifespan_vars, http_vars, body_vars, md_vars, hd_vars, fa_vars, rs_vars>>

\* App.shutdown(func)
App_shutdown ==
    /\ lifespan.events = 0
    /\ Len(shutdown) < MaxLifespanHooks
    /\ shutdown' = Append(shutdown, Len(shutdown) + 1)
    /\ UNCHANGED <<routes, startup, before, after, max_content, route_log>>
    /\ UNCHANGED <<lifespan_vars, http_vars, body_vars, md_vars, hd_vars, fa_vars, rs_vars>>

\* -------------------------------------------- App.__call__: lifespan
\* f'{type(e).__name__}: {e}' for the exception a failing hook raises
failure_message == "RuntimeError: hook failed"

\* lines 310-312: the route table with every key compiled
compile_routes(rs) == [i \in DOMAIN rs |-> [key |-> re_compile(rs[i].key), value |-> rs[i].value]]

\* the lifespan.startup event is received (the transport sends it first)
lifespan_receive_startup ==
    /\ lifespan.pc = "receive"
    /\ lifespan.events = 0
    /\ lifespan' = [pc |-> "startup", hook |-> 1, events |-> 1]
    /\ UNCHANGED <<lifespan_sent, lifespan_calls, state>>
    /\ UNCHANGED <<app_vars, http_vars, body_vars, md_vars, hd_vars, fa_vars, rs_vars>>

\* a startup loop that reports a failing hook and goes on to the next one
lifespan_startup_hook_continues(raises) ==
    /\ lifespan.pc = "startup"
    /\ lifespan.hook <= Len(startup)
    /\ lifespan_calls' = Append(lifespan_calls,
            [stage |-> "startup", id |-> startup[lifespan.hook], raised |-> raises])
    /\ lifespan' = [lifespan EXCEPT !.hook = @ + 1]
    /\ IF raises
       THEN /\ lifespan_sent' = Append(lifespan_sent,
                    [type |-> "lifespan.startup.failed", message |-> failure_message])
            /\ UNCHANGED state
       ELSE /\ state' = state \cup {<<"startup", startup[lifespan.hook]>>}
            /\ UNCHANGED lifespan_sent
    /\ UNCHANGED <<app_vars, http_vars, body_vars, md_vars, hd_vars, fa_vars, rs_vars>>

\* one startup hook runs against scope['state']; it returns, or raises
lifespan_startup_hook(raises) ==
    /\ lifespan.pc = "startup"
    /\ lifespan.hook <= Len(startup)
    /\ lifespan_calls' = Append(lifespan_calls,
            [stage |-> "startup", id |-> startup[lifespan.hook], raised |-> raises])
    /\ IF raises
       THEN /\ lifespan_sent' = Append(lifespan_sent,
                    [type |-> "lifespan.startup.failed", message |-> failure_message])
            /\ lifespan' = [lifespan EXCEPT !.pc = "returned"]
            /\ UNCHANGED state
       ELSE /\ lifespan' = [lifespan EXCEPT !.hook = @ + 1]
            /\ state' = state \cup {<<"startup", startup[lifespan.hook]>>}
            /\ UNCHANGED lifespan_sent
    /\ UNCHANGED <<app_vars, http_vars, body_vars, md_vars, hd_vars, fa_vars, rs_vars>>

\* every startup hook returned: compile the routes, send startup.complete
lifespan_startup_complete ==
    /\ lifespan.pc = "startup"
    /\ lifespan.hook > Len(startup)
    /\ routes' = compile_routes(routes)
    /\ lifespan_sent' = Append(lifespan_sent, [type |-> "lifespan.startup.complete"])
    /\ lifespan' = [lifespan EXCEPT !.pc = "receive"]
    /\ UNCHANGED <<startup, shutdown, before, after, max_content, route_log>>
    /\ UNCHANGED <<lifespan_calls, state>>
    /\ UNCHANGED <<http_vars, body_vars, md_vars, hd_vars, fa_vars, rs_vars>>

\* the lifespan.shutdown event is received (the transport sends it after startup)
lifespan_receive_shutdown ==
    /\ lifespan.pc = "receive"
    /\ lifespan.events = 1
    /\ lifespan' = [pc |-> "shutdown", hook |-> 1, events |-> 2]
    /\ UNCHANGED <<lifespan_sent, lifespan_calls, state>>
    /\ UNCHANGED <<app_vars, http_vars, body_vars, md_vars, hd_vars, fa_vars, rs_vars>>

\* a shutdown loop that reports a failing hook and goes on to the next one
lifespan_shutdown_hook_continues(raises) ==
    /\ lifespan.pc = "shutdown"
    /\ lifespan.hook <= Len(shutdown)
    /\ lifespan_calls' = Append(lifespan_calls,
            [stage |-> "shutdown", id |-> shutdown[lifespan.hook], raised |-> raises])
    /\ lifespan' = [lifespan EXCEPT !.hook = @ + 1]
    /\ IF raises
       THEN /\ lifespan_sent' = Append(lifespan_sent,
                    [type |-> "lifespan.shutdown.failed", message |-> failure_message])
            /\ UNCHANGED state
       ELSE /\ state' = state \cup {<<"shutdown", shutdown[lifespan.hook]>>}
            /\ UNCHANGED lifespan_sent
    /\ UNCHANGED <<app_vars, http_vars, body_vars, md_vars, hd_vars, fa_vars, rs_vars>>

\* one shutdown hook runs; it returns, or raises
lifespan_shutdown_hook(raises) ==
    /\ lifespan.pc = "shutdown"
    /\ lifespan.hook <= Len(shutdown)
    /\ lifespan_calls' = Append(lifespan_calls,
            [stage |-> "shutdown", id |-> shutdown[lifespan.hook], raised |-> raises])
    /\ IF raises
       THEN /\ lifespan_sent' = Append(lifespan_sent,
                    [type |-> "lifespan.shutdown.failed", message |-> failure_message])
            /\ lifespan' = [lifespan EXCEPT !.pc = "returned"]
            /\ UNCHANGED state
       ELSE /\ lifespan' = [lifespan EXCEPT !.hook = @ + 1]
            /\ state' = state \cup {<<"shutdown", shutdown[lifespan.hook]>>}
            /\ UNCHANGED lifespan_sent
    /\ UNCHANGED <<app_vars, http_vars, body_vars, md_vars, hd_vars, fa_vars, rs_vars>>

\* every shutdown hook returned: send shutdown.complete and leave the loop
lifespan_shutdown_complete ==
    /\ lifespan.pc = "shutdown"
    /\ lifespan.hook > Len(shutdown)
    /\ lifespan_sent' = Append(lifespan_sent, [type |-> "lifespan.shutdown.complete"])
    /\ lifespan' = [lifespan EXCEPT !.pc = "returned"]
    /\ UNCHANGED <<lifespan_calls, state>>
    /\ UNCHANGED <<app_vars, http_vars, body_vars, md_vars, hd_vars, fa_vars, rs_vars>>

\* ------------------------------------------------- the request transport
\* the http.request events receive() may return next
Events(chunks) ==
    { [body |-> c, more_body |-> m] : c \in chunks, m \in BOOLEAN }

can_deliver(event) ==
    /\ ~transport.ended
    /\ transport.delivered < MaxEvents
    /\ transport.delivered = MaxEvents - 1 => ~event.more_body

delivered(event) ==
    [delivered |-> transport.delivered + 1,
     ended |-> ~event.more_body,
     data |-> transport.data \o event.body]

\* ------------------------------------------------------------ Body.read
\* read(n) up to its first await, or to its return
Body_read_call(r, n) ==
    IF n = 0
    THEN [r EXCEPT !.pc = "returned", !.n = n, !.result = <<>>]
    ELSE IF Body_enters_loop(r.body)
         THEN [r EXCEPT !.pc = "awaiting", !.n = n]
         ELSE [body |-> Body_rest(r.body, n), pc |-> "returned", n |-> n,
               result |-> Body_result(r.body, n)]

\* read(n) resumed with an event: it awaits again, or returns
Body_read_resume(r, event) ==
    LET b1 == Body_on_event(r.body, event)
    IN  IF Body_loop_continues(b1)
        THEN [r EXCEPT !.body = b1]
        ELSE [body |-> Body_rest(b1, r.n), pc |-> "returned", n |-> r.n,
              result |-> Body_result(b1, r.n)]

\* a suspended read(n) receives the next http.request event
Body_receive(event) ==
    /\ reader.pc = "awaiting"
    /\ can_deliver(event)
    /\ transport' = delivered(event)
    /\ reader' = Body_read_resume(reader, event)
    /\ UNCHANGED out
    /\ UNCHANGED <<app_vars, lifespan_vars, http_vars, md_vars, hd_vars, fa_vars, rs_vars>>

\* a read(n) suspended after the last http.request event receives http.disconnect,
\* which has no 'body' key (or it stays suspended for ever)
Body_receive_disconnect ==
    /\ reader.pc = "awaiting"
    /\ transport.ended
    /\ reader' = [reader EXCEPT !.pc = "raised"]
    /\ UNCHANGED <<transport, out>>
    /\ UNCHANGED <<app_vars, lifespan_vars, http_vars, md_vars, hd_vars, fa_vars, rs_vars>>

\* a caller of the Body reader calls read(n)
Body_read(n) ==
    /\ reader.pc = "idle"
    /\ out.reads < MaxReads
    /\ reader' = Body_read_call(reader, n)
    /\ UNCHANGED <<transport, out>>
    /\ UNCHANGED <<app_vars, lifespan_vars, http_vars, md_vars, hd_vars, fa_vars, rs_vars>>

\* read(n) returns to that caller
Body_read_return ==
    /\ reader.pc = "returned"
    /\ out' = [data |-> out.data \o reader.result, reads |-> out.reads + 1,
               last |-> reader.result]
    /\ reader' = [reader EXCEPT !.pc = "idle"]
    /\ UNCHANGED transport
    /\ UNCHANGED <<app_vars, lifespan_vars, http_vars, md_vars, hd_vars, fa_vars, rs_vars>>

\* ------------------------------------------------ App.__call__: http
\* ', '.join(methods)
RECURSIVE join(_)
join(names) ==
    IF names = <<>> THEN ""
    ELSE IF Len(names) = 1 THEN Head(names)
         ELSE Head(names) \o ", " \o join(Tail(names))

\* a dispatch in which the last matching route wins
last_match(rs, path) ==
    IF \E i \in DOMAIN rs : re_fullmatch(rs[i].key.pattern, path)
    THEN CHOOSE i \in DOMAIN rs :
            /\ re_fullmatch(rs[i].key.pattern, path)
            /\ \A j \in (i + 1)..Len(rs) : ~re_fullmatch(rs[j].key.pattern, path)
    ELSE 0

\* lines 385-386: the index of the first route whose pattern fully matches, or 0
first_match(rs, path) ==
    IF \E i \in DOMAIN rs : re_fullmatch(rs[i].key.pattern, path)
    THEN CHOOSE i \in DOMAIN rs :
            /\ re_fullmatch(rs[i].key.pattern, path)
            /\ \A j \in 1..(i - 1) : ~re_fullmatch(rs[j].key.pattern, path)
    ELSE 0

\* the kind of value a handler or hook returned, as the history keeps it
kind_of(v) ==
    IF v = NoneValue THEN "None"
    ELSE IF v \in {IntValue(0), StrValue(<<>>), BytesValue(<<>>), DictValue(<<>>)}
         THEN "falsy"
         ELSE IF v.type = "Response" THEN "Response" ELSE "truthy"

\* a before stage that drops what its hooks return
before_ignored(v) == FALSE

\* line 382: whether a before-hook's return value ends the before stage
before_vetoes(v) == truthy(v)

\* line 403: whether an after-hook's return value replaces the response
after_replaces(v) == truthy(v)

\* a raised Response that is serialized at once, past the after-hooks
caught_and_serialized(r, from) ==
    /\ response' = r
    /\ origin' = from
    /\ pc' = "serialize"
    /\ hook' = 1
    /\ error' = error

\* lines 398-399: a raised Response becomes the response, and the after-hooks are next
caught(r, from) ==
    /\ response' = r
    /\ origin' = from
    /\ pc' = "after"
    /\ hook' = 1
    /\ error' = error

\* an exception that is no Response leaves App.__call__
propagates(e) ==
    /\ pc' = "raised"
    /\ error' = e
    /\ UNCHANGED <<response, origin, hook>>

\* lines 335-357: the Request is built, headers and cookies are parsed, the decoder chosen
http_call(method, path, scope_headers) ==
    /\ pc = "idle"
    /\ lifespan.pc = "receive"
    /\ lifespan_sent # <<>>
    /\ LET req == [method |-> method, path |-> path, params |-> <<>>, headers |-> <<>>,
                   body |-> <<>>, json |-> "{}", state |-> state]
           hdrs == Headers_from_pairs(scope_headers)
           ctype == parse_options_header(Headers_get(hdrs, content_type, <<>>).value)
       IN  IF \E i \in DOMAIN scope_headers :
                 decode_raises(scope_headers[i][1]) \/ decode_raises(scope_headers[i][2])
           THEN /\ request' = req
                /\ caught(Response_init(400, <<>>, <<>>), [stage |-> "headers"])
           ELSE /\ request' = [req EXCEPT !.headers = hdrs]
                /\ IF cookie_load_raises(Headers_get(hdrs, cookie, <<>>).value)
                   THEN caught(Response_init(400, <<>>, <<>>), [stage |-> "cookies"])
                   ELSE /\ pc' = IF split_plus(ctype) = "application/json" THEN "json"
                                 ELSE IF ctype \in {"application/x-www-form-urlencoded",
                                                    "multipart/form-data"}
                                      THEN "form" ELSE "before"
                        /\ UNCHANGED <<response, origin, hook, error>>
    /\ UNCHANGED <<replaced, calls, sent>>
    /\ UNCHANGED <<app_vars, lifespan_vars, body_vars, md_vars, hd_vars, fa_vars, rs_vars>>

\* lines 360-361: ijson asks the Body for its next buffer
http_json_read ==
    /\ pc = "json"
    /\ reader.pc = "idle"
    /\ reader' = Body_read_call(reader, ijson_buf_size)
    /\ UNCHANGED <<transport, out>>
    /\ UNCHANGED <<app_vars, lifespan_vars, http_vars, md_vars, hd_vars, fa_vars, rs_vars>>

\* lines 360-363: ijson parses what read() returned; the parser accepts it or raises
\* JSONError (IncompleteJSONError at the end of a truncated document)
http_json_feed(parser_raises) ==
    /\ pc = "json"
    /\ reader.pc = "returned"
    /\ reader' = [reader EXCEPT !.pc = "idle"]
    /\ IF parser_raises
       THEN /\ caught(Response_init(400, <<>>, <<>>), [stage |-> "json"])
            /\ UNCHANGED request
       ELSE /\ IF reader.result = <<>>
               THEN /\ pc' = "before"
                    /\ request' = [request EXCEPT !.json = "decoded"]
               ELSE UNCHANGED <<pc, request>>
            /\ UNCHANGED <<response, origin, hook, error>>
    /\ UNCHANGED <<replaced, calls, sent, transport, out>>
    /\ UNCHANGED <<app_vars, lifespan_vars, md_vars, hd_vars, fa_vars, rs_vars>>

\* lines 360-363: the KeyError of a read() that received http.disconnect is not caught
http_json_error ==
    /\ pc = "json"
    /\ reader.pc = "raised"
    /\ propagates("KeyError")
    /\ UNCHANGED <<request, replaced, calls, sent>>
    /\ UNCHANGED <<app_vars, lifespan_vars, body_vars, md_vars, hd_vars, fa_vars, rs_vars>>

\* lines 373-379: one turn of the form loop: receive an event, feed the form parser
\* (which accepts the chunk, or raises on malformed data), test the size, leave the
\* loop at the last event
http_form(event, parser_raises) ==
    /\ pc = "form"
    /\ can_deliver(event)
    /\ transport' = delivered(event)
    /\ IF parser_raises /\ event.body # <<>>
       THEN propagates("FormParserError")
       ELSE IF Len(request.body) > max_content
            THEN propagates("NameError")
            ELSE /\ pc' = IF event.more_body THEN "form" ELSE "before"
                 /\ UNCHANGED <<response, origin, hook, error>>
    /\ UNCHANGED <<request, replaced, calls, sent, reader, out>>
    /\ UNCHANGED <<app_vars, lifespan_vars, md_vars, hd_vars, fa_vars, rs_vars>>

\* lines 381-383: the next before-hook is called and returns v
http_before(v) ==
    /\ pc = "before"
    /\ hook <= Len(before)
    /\ calls' = Append(calls, [stage |-> "before", id |-> before[hook], returned |-> kind_of(v)])
    /\ IF before_vetoes(v)
       THEN IF from_any(v).ok
            THEN caught(from_any(v).response,
                        [stage |-> "before", id |-> before[hook], value |-> v])
            ELSE propagates(from_any(v).error)
       ELSE /\ hook' = hook + 1
            /\ UNCHANGED <<pc, response, origin, error>>
    /\ UNCHANGED <<request, replaced, sent>>
    /\ UNCHANGED <<app_vars, lifespan_vars, body_vars, md_vars, hd_vars, fa_vars, rs_vars>>

\* lines 385-396: the routes are tried in order; the handler of the first match is
\* called and returns v, or the response is 405, or 404
http_dispatch(v) ==
    /\ pc = "before"
    /\ hook > Len(before)
    /\ LET i == first_match(routes, request.path)
           methods == routes[i].value
           r405 == Response_init(405, <<>>, <<>>)
       IN  IF routes # <<>> /\ ~routes[1].key.compiled
           THEN /\ propagates("AttributeError")
                /\ UNCHANGED <<request, calls>>
           ELSE IF i = 0
           THEN /\ caught(Response_init(404, <<>>, <<>>), [stage |-> "404"])
                /\ UNCHANGED <<request, calls>>
           ELSE /\ request' = [request EXCEPT !.params =
                                re_groupdict(routes[i].key.pattern, request.path)]
                /\ IF dict_contains(methods, request.method)
                   THEN /\ calls' = Append(calls,
                               [stage |-> "handler", id |-> dict_get(methods, request.method, 0),
                                returned |-> kind_of(v)])
                        /\ IF from_any(v).ok
                           THEN caught(from_any(v).response,
                                       [stage |-> "handler", route |-> i, value |-> v])
                           ELSE propagates(from_any(v).error)
                   ELSE /\ caught([r405 EXCEPT !.headers =
                                      MultiDict_setitem(@, allow, join(dict_keys(methods)))],
                                  [stage |-> "405", route |-> i])
                        /\ UNCHANGED calls
    /\ UNCHANGED <<replaced, sent>>
    /\ UNCHANGED <<app_vars, lifespan_vars, body_vars, md_vars, hd_vars, fa_vars, rs_vars>>

\* lines 401-406: the next after-hook is called with (request, response) and returns v
http_after(v) ==
    /\ pc = "after"
    /\ hook <= Len(after)
    /\ calls' = Append(calls, [stage |-> "after", id |-> after[hook], returned |-> kind_of(v)])
    /\ IF after_replaces(v)
       THEN IF from_any(v).ok
            THEN /\ response' = from_any(v).response
                 /\ replaced' = v
                 /\ pc' = "serialize"
                 /\ UNCHANGED <<hook, origin, error>>
            ELSE /\ propagates(from_any(v).error)
                 /\ UNCHANGED replaced
       ELSE /\ hook' = hook + 1
            /\ UNCHANGED <<pc, response, origin, replaced, error>>
    /\ UNCHANGED <<request, sent>>
    /\ UNCHANGED <<app_vars, lifespan_vars, body_vars, md_vars, hd_vars, fa_vars, rs_vars>>

\* line 408: response.headers._update({'content-length': [len(response.body)]});
\* the length is kept as the text str() gives it at line 421
with_content_length(r) ==
    [r EXCEPT !.headers = MultiDict__update(@,
                  <<[key |-> content_length, value |-> <<ToString(Len(r.body))>>]>>)]

\* lines 420-423: [[str(k).lower().encode(), str(v).encode()] for k, l in _items() for v in l]
RECURSIVE header_lines(_)
header_lines(items) ==
    IF items = <<>> THEN <<>>
    ELSE [i \in DOMAIN Head(items).value |->
             <<Encode(Lower(Head(items).key)), Head(items).value[i]>>]
         \o header_lines(Tail(items))

\* lines 417-424: the http.response.start frame
start_frame(r) ==
    [type |-> "http.response.start", status |-> r.status,
     headers |-> header_lines(MultiDict__items(r.headers))]

\* a second frame that is a start frame again
body_frame_as_start(r) == start_frame(r)

\* lines 425-428: the http.response.body frame
body_frame(r) == [type |-> "http.response.body", body |-> r.body]

\* lines 408-424: the after-hooks are over; the start frame is sent
http_send_start ==
    /\ \/ pc = "after" /\ hook > Len(after)
       \/ pc = "serialize"
    /\ response' = with_content_length(response)
    /\ sent' = Append(sent, start_frame(response'))
    /\ pc' = "body"
    /\ UNCHANGED <<hook, request, origin, replaced, calls, error>>
    /\ UNCHANGED <<app_vars, lifespan_vars, body_vars, md_vars, hd_vars, fa_vars, rs_vars>>

\* lines 425-428: the body frame is sent and App.__call__ returns
http_send_body ==
    /\ pc = "body"
    /\ sent' = Append(sent, body_frame(response))
    /\ pc' = "done"
    /\ UNCHANGED <<hook, request, response, origin, replaced, calls, error>>
    /\ UNCHANGED <<app_vars, lifespan_vars, body_vars, md_vars, hd_vars, fa_vars, rs_vars>>

\* ------------------------------------------------------- specifications
\* the per-request pipeline of an app without lifespan hooks
Next ==
    \/ \E path \in RoutePaths, methods \in RouteMethods : App_route(path, methods)
    \/ App_before
    \/ App_after
    \/ lifespan_receive_startup
    \/ lifespan_startup_complete
    \/ \E method \in RequestMethods, path \in RequestPaths, scope_headers \in ScopeHeaders :
          http_call(method, path, scope_headers)
    \/ http_json_read
    \/ \E event \in Events(Chunks) : Body_receive(event)
    \/ Body_receive_disconnect
    \/ \E parser_raises \in BOOLEAN : http_json_feed(parser_raises)
    \/ http_json_error
    \/ \E event \in Events(Chunks), parser_raises \in BOOLEAN : http_form(event, parser_raises)
    \/ \E v \in ReturnValues : http_before(v)
    \/ \E v \in ReturnValues : http_dispatch(v)
    \/ \E v \in ReturnValues : http_after(v)
    \/ http_send_start
    \/ http_send_body

Spec == Init /\ [][Next]_vars

\* the lifespan protocol of an app with startup and shutdown hooks
NextLifespan ==
    \/ \E path \in RoutePaths, methods \in RouteMethods : App_route(path, methods)
    \/ App_startup
    \/ App_shutdown
    \/ lifespan_receive_startup
    \/ \E raises \in BOOLEAN : lifespan_startup_hook(raises)
    \/ lifespan_startup_complete
    \/ lifespan_receive_shutdown
    \/ \E raises \in BOOLEAN : lifespan_shutdown_hook(raises)
    \/ lifespan_shutdown_complete

SpecLifespan == Init /\ [][NextLifespan]_vars

\* ------------------------------------------------ a caller of Body.read
BodyChunks == {<<>>, <<"x">>, <<"y">>, <<"x", "y">>}
ReadSizes == {-1, 0, 1, 2}

NextBody ==
    \/ \E n \in ReadSizes : Body_read(n)
    \/ \E event \in Events(BodyChunks) : Body_receive(event)
    \/ Body_receive_disconnect
    \/ Body_read_return

SpecBody == Init /\ [][NextBody]_vars

\* ------------------------------------------------- a user of MultiDict
Keys == {<<"a">>, <<"b">>}
Values == {"x", "y"}

\* d[k] = v
md_setitem(k, v) ==
    /\ Len(md_log) < MaxOps
    /\ md' = MultiDict_setitem(md, k, v)
    /\ md_log' = Append(md_log, [op |-> "set", key |-> k, value |-> v])
    /\ md_ret' = [op |-> "set"]
    /\ UNCHANGED <<app_vars, lifespan_vars, http_vars, body_vars, hd_vars, fa_vars, rs_vars>>

\* d.get(k, default); d.get(k) is d.get(k, None)
md_get(k, default) ==
    /\ md_ret' = [op |-> "get", key |-> k, default |-> default,
                  value |-> MultiDict_get(md, k, default)]
    /\ UNCHANGED <<md, md_log>>
    /\ UNCHANGED <<app_vars, lifespan_vars, http_vars, body_vars, hd_vars, fa_vars, rs_vars>>

\* d._get(k, default); d._get(k) is d._get(k, (None,))
md__get(k, default) ==
    /\ md_ret' = [op |-> "_get", key |-> k, default |-> default,
                  list |-> MultiDict__get(md, k, default)]
    /\ UNCHANGED <<md, md_log>>
    /\ UNCHANGED <<app_vars, lifespan_vars, http_vars, body_vars, hd_vars, fa_vars, rs_vars>>

NextMultiDict ==
    \/ \E k \in Keys, v \in Values : md_setitem(k, v)
    \/ \E k \in Keys, default \in Values \cup {None} : md_get(k, default)
    \/ \E k \in Keys, default \in {default_list, <<>>} : md__get(k, default)

SpecMultiDict == Init /\ [][NextMultiDict]_vars

\* --------------------------------------------------- a user of Headers
HeaderKeys == {<<"A">>, <<"a">>, <<"B">>}
HeaderValues == {StrValue(<<"x">>), StrValue(<<"y", "z">>)}

\* Headers(pairs) or Headers(mapping): hd is constructed
hd_init(pairs, as_dict) ==
    /\ hd_log = <<>>
    /\ hd_ret.op = ""
    /\ hd' = IF as_dict
             THEN Headers_from_dict([i \in DOMAIN pairs |->
                                        [key |-> pairs[i][1], value |-> pairs[i][2]]])
             ELSE Headers_from_pairs(pairs)
    /\ hd_log' = [i \in DOMAIN pairs |->
                    [op |-> IF as_dict THEN "init dict" ELSE "init pairs",
                     key |-> pairs[i][1], value |-> pairs[i][2]]]
    /\ hd_ret' = [op |-> "init"]
    /\ UNCHANGED <<app_vars, lifespan_vars, http_vars, body_vars, md_vars, fa_vars, rs_vars>>

\* h[k] = v
hd_setitem(k, v) ==
    /\ Len(hd_log) < MaxHeaderOps
    /\ hd' = Headers_setitem(hd, k, v).d
    /\ hd_log' = Append(hd_log, [op |-> "set", key |-> k, value |-> v])
    /\ hd_ret' = [op |-> "set", key |-> k, raised |-> Headers_setitem(hd, k, v).raised]
    /\ UNCHANGED <<app_vars, lifespan_vars, http_vars, body_vars, md_vars, fa_vars, rs_vars>>

\* h.setdefault(k, v)
hd_setdefault(k, v) ==
    /\ Len(hd_log) < MaxHeaderOps
    /\ hd' = Headers_setdefault(hd, k, v).d
    /\ hd_log' = Append(hd_log, [op |-> "setdefault", key |-> k, value |-> v])
    /\ hd_ret' = [op |-> "setdefault", key |-> k, result |-> Headers_setdefault(hd, k, v).result]
    /\ UNCHANGED <<app_vars, lifespan_vars, http_vars, body_vars, md_vars, fa_vars, rs_vars>>

\* h.update({k: v})
hd_update(k, v) ==
    /\ Len(hd_log) < MaxHeaderOps
    /\ hd' = Headers_update(hd, <<[key |-> k, value |-> v]>>)
    /\ hd_log' = Append(hd_log, [op |-> "update", key |-> k, value |-> v])
    /\ hd_ret' = [op |-> "update", key |-> k]
    /\ UNCHANGED <<app_vars, lifespan_vars, http_vars, body_vars, md_vars, fa_vars, rs_vars>>

\* h.pop(k)
hd_pop(k) ==
    /\ Len(hd_log) < MaxHeaderOps
    /\ hd' = Headers_pop(hd, k, NoneValue).d
    /\ hd_log' = Append(hd_log, [op |-> "pop", key |-> k])
    /\ hd_ret' = [op |-> "pop", key |-> k, result |-> Headers_pop(hd, k, NoneValue)]
    /\ UNCHANGED <<app_vars, lifespan_vars, http_vars, body_vars, md_vars, fa_vars, rs_vars>>

\* del h[k]
hd_delitem(k) ==
    /\ Len(hd_log) < MaxHeaderOps
    /\ hd' = Headers_delitem(hd, k).d
    /\ hd_log' = Append(hd_log, [op |-> "del", key |-> k])
    /\ hd_ret' = [op |-> "del", key |-> k, raised |-> Headers_delitem(hd, k).raised]
    /\ UNCHANGED <<app_vars, lifespan_vars, http_vars, body_vars, md_vars, fa_vars, rs_vars>>

\* h.get(k)
hd_get(k) ==
    /\ hd_ret' = [op |-> "get", key |-> k, result |-> Headers_get(hd, k, NoneValue)]
    /\ UNCHANGED <<hd, hd_log>>
    /\ UNCHANGED <<app_vars, lifespan_vars, http_vars, body_vars, md_vars, fa_vars, rs_vars>>

\* h[k]
hd_getitem(k) ==
    /\ hd_ret' = [op |-> "getitem", key |-> k, result |-> Headers_getitem(hd, k)]
    /\ UNCHANGED <<hd, hd_log>>
    /\ UNCHANGED <<app_vars, lifespan_vars, http_vars, body_vars, md_vars, fa_vars, rs_vars>>

\* h._get(k)
hd__get(k) ==
    /\ hd_ret' = [op |-> "_get", key |-> k, result |-> Headers__get(hd, k, <<NoneValue>>)]
    /\ UNCHANGED <<hd, hd_log>>
    /\ UNCHANGED <<app_vars, lifespan_vars, http_vars, body_vars, md_vars, fa_vars, rs_vars>>

\* k in h
hd_contains(k) ==
    /\ hd_ret' = [op |-> "contains", key |-> k, value |-> Headers_contains(hd, k)]
    /\ UNCHANGED <<hd, hd_log>>
    /\ UNCHANGED <<app_vars, lifespan_vars, http_vars, body_vars, md_vars, fa_vars, rs_vars>>

NextHeaders ==
    \/ \E k \in HeaderKeys, v \in HeaderValues, as_dict \in BOOLEAN : hd_init(<<<<k, v>>>>, as_dict)
    \/ \E k \in HeaderKeys, v \in HeaderValues : hd_setitem(k, v)
    \/ \E k \in HeaderKeys, v \in HeaderValues : hd_setdefault(k, v)
    \/ \E k \in HeaderKeys, v \in HeaderValues : hd_update(k, v)
    \/ \E k \in HeaderKeys : hd_pop(k)
    \/ \E k \in HeaderKeys : hd_delitem(k)
    \/ \E k \in HeaderKeys : hd_get(k)
    \/ \E k \in HeaderKeys : hd_getitem(k)
    \/ \E k \in HeaderKeys : hd__get(k)
    \/ \E k \in HeaderKeys : hd_contains(k)

SpecHeaders == Init /\ [][NextHeaders]_vars

\* =============================================================== claims
before_calls == SelectSeq(calls, LAMBDA c : c.stage = "before")
handler_calls == SelectSeq(calls, LAMBDA c : c.stage = "handler")
after_calls == SelectSeq(calls, LAMBDA c : c.stage = "after")

\* C1: an http call sends nothing until its response is final, then exactly one
\* http.response.start frame (with the response's status) followed by exactly one
\* http.response.body frame (with the response's body), and nothing else, whichever
\* stage produced the response; a call that returned has sent both.
C1_OneStartThenOneBody ==
    /\ Len(sent) <= 2
    /\ pc \notin {"body", "done"} => sent = <<>>
    /\ pc = "body" => Len(sent) = 1
    /\ pc = "done" => Len(sent) = 2
    /\ Len(sent) >= 1 =>
          /\ sent[1].type = "http.response.start"
          /\ sent[1].status = response.status
          /\ origin.stage \in {"headers", "cookies", "json", "before", "handler", "405", "404"}
    /\ Len(sent) = 2 =>
          /\ sent[2].type = "http.response.body"
          /\ sent[2].body = response.body

\* the call returned after a 405 short-circuit that an after-hook then replaced
C1_Witness ==
    /\ pc = "done"
    /\ origin.stage = "405"
    /\ replaced # NoneValue
    /\ Len(sent) = 2

\* C2: once a before-hook has returned a response value (a Response, or another
\* true value that coerces to one), no later before-hook and no handler is called,
\* and unless an after-hook replaces it the frames sent are those of the coercion
\* of the returned value.
C2_BeforeVeto ==
    \A i \in DOMAIN calls :
        (calls[i].stage = "before" /\ calls[i].returned \in {"Response", "truthy"}) =>
            /\ \A j \in DOMAIN calls : j > i => calls[j].stage = "after"
            /\ (sent # <<>> /\ replaced = NoneValue) =>
                  /\ origin.stage = "before"
                  /\ origin.id = calls[i].id
                  /\ sent[1] = start_frame(with_content_length(from_any(origin.value).response))
                  /\ Len(sent) = 2 => sent[2] = body_frame(from_any(origin.value).response)

\* the first of two before-hooks returned a Response for a request whose route and
\* method have a handler, and the call returned
C2_Witness ==
    /\ pc = "done"
    /\ Len(before) = 2
    /\ replaced = NoneValue
    /\ Len(calls) = 1
    /\ calls[1].stage = "before" /\ calls[1].id = 1 /\ calls[1].returned = "Response"
    /\ first_match(routes, request.path) # 0
    /\ dict_contains(routes[first_match(routes, request.path)].value, request.method)
    /\ sent[1].status = 201

\* C3: no frame is sent while after-hooks can still run, and when a frame has been
\* sent the after-hooks were called in registration order starting with the first
\* one, stopping short of the last only when one of them replaced the response;
\* this holds for early and error responses as for handler results.
C3_AfterHooksBeforeFrames ==
    /\ pc = "after" => sent = <<>>
    /\ sent # <<>> =>
          /\ Len(after_calls) <= Len(after)
          /\ \A i \in DOMAIN after_calls : after_calls[i].id = after[i]
          /\ after # <<>> => after_calls # <<>>
          /\ Len(after_calls) < Len(after) => replaced # NoneValue
          /\ \A i \in DOMAIN calls :
                calls[i].stage = "after" => \A j \in DOMAIN calls : j > i => calls[j].stage = "after"

\* a 400 from JSON decoding went through both after-hooks before its frames
C3_Witness ==
    /\ origin.stage = "json"
    /\ response.status = 400
    /\ Len(after) = 2
    /\ Len(after_calls) = 2
    /\ Len(sent) = 2

\* what the registrations made with App.route say, read off the log of the calls
matching_calls == {i \in DOMAIN route_log : re_fullmatch(route_log[i].path, request.path)}

first_matching_path ==
    route_log[CHOOSE i \in matching_calls : \A j \in matching_calls : i <= j].path

\* the methods registered for a path, each once, in the order of first registration
RECURSIVE methods_in_order(_, _, _)
methods_in_order(log, path, seen) ==
    IF log = <<>> THEN seen
    ELSE LET ms == Head(log).methods
             new == SelectSeq(ms, LAMBDA m : \A k \in DOMAIN seen : seen[k] # m)
         IN  methods_in_order(Tail(log), path,
                              IF Head(log).path = path THEN seen \o new ELSE seen)

registered_methods(path) == methods_in_order(route_log, path, <<>>)

\* the handler registered last for a path and method
registered_handler(path, method) ==
    LET regs == {i \in DOMAIN route_log :
                    /\ route_log[i].path = path
                    /\ \E k \in DOMAIN route_log[i].methods : route_log[i].methods[k] = method}
    IN  route_log[CHOOSE i \in regs : \A j \in regs : j <= i].func

has_method(path, method) ==
    \E k \in DOMAIN registered_methods(path) : registered_methods(path)[k] = method

\* C4: dispatch is decided by the first-registered path pattern that fully matches
\* the request path: its handler for the request method is called exactly once; if
\* it has none the response is 405 with Allow listing the methods registered for
\* that path in registration order, and no handler is called; if no registered
\* pattern fully matches the response is 404 and no handler is called.
C4_FirstMatchDispatch ==
    /\ Len(handler_calls) <= 1
    /\ handler_calls # <<>> =>
          /\ matching_calls # {}
          /\ has_method(first_matching_path, request.method)
          /\ handler_calls[1].id = registered_handler(first_matching_path, request.method)
    /\ origin.stage = "handler" => Len(handler_calls) = 1
    /\ origin.stage = "405" =>
          /\ matching_calls # {}
          /\ ~has_method(first_matching_path, request.method)
          /\ handler_calls = <<>>
          /\ replaced = NoneValue =>
                /\ response.status = 405
                /\ MultiDict_get(response.headers, allow, None)
                      = join(registered_methods(first_matching_path))
    /\ origin.stage = "404" =>
          /\ matching_calls = {}
          /\ handler_calls = <<>>
          /\ replaced = NoneValue => response.status = 404

\* a 405 from the first matching route although a route registered later matches
\* the path too and has a handler for the request method
C4_Witness ==
    /\ pc = "done"
    /\ origin.stage = "405"
    /\ replaced = NoneValue
    /\ sent[1].status = 405
    /\ \E i \in matching_calls :
          /\ route_log[i].path # first_matching_path
          /\ has_method(route_log[i].path, request.method)

form_request ==
    /\ request # NoRequest
    /\ request.headers # <<>>
    /\ parse_options_header(Headers_get(request.headers, content_type, <<>>).value)
          \in {"application/x-www-form-urlencoded", "multipart/form-data"}

\* C5 (as claimed): once the raw body received for a form request is longer than
\* max_content, no further chunk is awaited and the response sent has status 413.
C5_OversizedBodyIs413 ==
    (form_request /\ Len(transport.data) > max_content) =>
        /\ pc # "form"
        /\ pc = "done" => sent[1].status = 413

\* C6 (as claimed): a malformed header, cookie, JSON body or form body never leaves
\* the call as an exception; the handler is not called and, unless an after-hook
\* replaces it, the response sent is 400 with the status phrase as its body.
C6_MalformedInputIs400 ==
    /\ error # "FormParserError"
    /\ origin.stage \in {"headers", "cookies", "json"} =>
          /\ handler_calls = <<>>
          /\ (replaced = NoneValue /\ pc = "done") =>
                /\ sent[1].status = 400
                /\ sent[2].body = Encode(HTTPStatus_phrase(400))

IsPrefix(s, t) == Len(s) <= Len(t) /\ SubSeq(t, 1, Len(s)) = s

\* C7: Body reader chunking-invariance: however the bytes are split into events and
\* whatever non-zero sizes the read(n) calls use, the bytes the calls have returned
\* are, in order, the first bytes of the stream, none lost, duplicated or reordered,
\* and once a call with n non-zero returns empty they are the whole stream.
\* The code does not satisfy this statement.
C7_ChunkingInvariance ==
    /\ IsPrefix(out.data, transport.data)
    /\ (out.reads > 0 /\ reader.pc = "idle" /\ reader.n # 0 /\ out.last = <<>>)
            => (transport.ended /\ out.data = transport.data)

\* the values the d[k] = v operations applied so far gave key k, in order
set_values(k) ==
    LET sets == SelectSeq(md_log, LAMBDA e : e.op = "set" /\ e.key = k)
    IN  [i \in DOMAIN sets |-> sets[i].value]

\* what get(k, default) is claimed to return
C8_get_holds ==
    md_ret.op = "get" =>
        md_ret.value = IF set_values(md_ret.key) = <<>> THEN md_ret.default
                       ELSE Last(set_values(md_ret.key))

\* C8, as stated: after any sequence of d[k] = v, get(k) returns the most recently set
\* value of k (the caller's default if k was never set) and _get(k) returns the values
\* set for k, as many as there were set calls and in their order, which is the empty
\* sequence for a key never set.  The code does not satisfy this statement.
C8_GetAllEmptyWhenNeverSet ==
    /\ C8_get_holds
    /\ (md_ret.op = "_get" /\ md_ret.default = default_list)
            => md_ret.list = set_values(md_ret.key)

\* C8, amended: after any sequence of d[k] = v, get(k) returns the most recently set
\* value of k (the caller's default if k was never set); _get(k) returns, for a key
\* set at least once, the values set for k, as many as there were set calls and in
\* their order, and for a key never set the list of the caller's default, which is
\* [None] when no default is passed.
C8_GetAllDefaultWhenNeverSet ==
    /\ C8_get_holds
    /\ md_ret.op = "_get"
            => /\ set_values(md_ret.key) # <<>> => md_ret.list = set_values(md_ret.key)
               /\ set_values(md_ret.key) = <<>> => md_ret.list = md_ret.default
    /\ \A i \in DOMAIN md : md[i].value = set_values(md[i].key)

\* a key set twice beside a key never set, whose _get without default gives [None]
C8_Witness ==
    /\ md_ret.op = "_get"
    /\ md_ret.default = default_list
    /\ set_values(md_ret.key) = <<>>
    /\ md_ret.list = <<None>>
    /\ \E k \in Keys : Len(set_values(k)) = 2 /\ MultiDict__get(md, k, default_list) = set_values(k)

\* whether two header names differ at most in letter case
same_name(k1, k2) == Lower(k1) = Lower(k2)

\* C9: every Headers operation treats keys that differ only in letter case as one key,
\* stores the key lowercased and leaves the value unchanged: a stored key is lowercase;
\* a membership test answers whether a key of the same name is stored; after a deletion
\* no key of that name is stored; and get, right after a construction, set or update
\* that gave a key of the same name the value x, returns x.
\* The code does not satisfy this statement.
C9_HeadersCaseInsensitive ==
    /\ \A i \in DOMAIN hd : hd[i].key = Lower(hd[i].key)
    /\ hd_ret.op = "contains"
            => hd_ret.value = (\E i \in DOMAIN hd : same_name(hd[i].key, hd_ret.key))
    /\ hd_ret.op = "del"
            => ~\E i \in DOMAIN hd : same_name(hd[i].key, hd_ret.key)
    /\ (/\ hd_ret.op = "get"
        /\ hd_log # <<>>
        /\ Last(hd_log).op \in {"init dict", "init pairs", "set", "update"}
        /\ same_name(Last(hd_log).key, hd_ret.key))
            => hd_ret.result = [raised |-> "", value |-> Last(hd_log).value]

startup_calls == SelectSeq(lifespan_calls, LAMBDA c : c.stage = "startup")
startup_failed == \E i \in DOMAIN startup_calls : startup_calls[i].raised
sent_of(type) == SelectSeq(lifespan_sent, LAMBDA e : e.type = type)
routes_compiled == \A i \in DOMAIN routes : routes[i].key.compiled
routes_uncompiled == \A i \in DOMAIN routes : ~routes[i].key.compiled

shutdown_calls == SelectSeq(lifespan_calls, LAMBDA c : c.stage = "shutdown")
shutdown_failed == \E i \in DOMAIN shutdown_calls : shutdown_calls[i].raised

\* C11: on the shutdown event the shutdown hooks run in registration order; exactly one
\* of shutdown.complete (all hooks succeeded) and shutdown.failed (a hook raised, the
\* later hooks not run) is sent, and in both cases the lifespan loop has returned, so it
\* receives no further event.
C11_ShutdownHooks ==
    /\ Len(shutdown_calls) <= Len(shutdown)
    /\ \A i \in DOMAIN shutdown_calls :
            /\ shutdown_calls[i].id = shutdown[i]
            /\ i < Len(shutdown_calls) => ~shutdown_calls[i].raised
    /\ Len(sent_of("lifespan.shutdown.complete")) + Len(sent_of("lifespan.shutdown.failed")) <= 1
    /\ shutdown_failed
            <=> sent_of("lifespan.shutdown.failed") =
                    <<[type |-> "lifespan.shutdown.failed", message |-> failure_message]>>
    /\ sent_of("lifespan.shutdown.complete") # <<>>
            => Len(shutdown_calls) = Len(shutdown) /\ ~shutdown_failed
    /\ (sent_of("lifespan.shutdown.complete") # <<>> \/ sent_of("lifespan.shutdown.failed") # <<>>)
            => /\ lifespan.pc = "returned"
               /\ lifespan.events = 2
               /\ Last(lifespan_sent).type \in {"lifespan.shutdown.complete",
                                                 "lifespan.shutdown.failed"}
    /\ (lifespan.events = 2 /\ lifespan.pc # "shutdown")
            => /\ lifespan.pc = "returned"
               /\ Len(sent_of("lifespan.shutdown.complete"))
                    + Len(sent_of("lifespan.shutdown.failed")) = 1
    /\ shutdown_calls # <<>> => lifespan.events = 2

\* two shutdown hooks: the first failed, the second never ran, the loop is over
C11_Witness ==
    /\ Len(shutdown) = 2
    /\ Len(shutdown_calls) = 1
    /\ shutdown_calls[1].raised
    /\ Len(sent_of("lifespan.shutdown.failed")) = 1
    /\ sent_of("lifespan.shutdown.complete") = <<>>
    /\ lifespan.pc = "returned"

\* ------------------------------------------- a caller of Response.from_any
\* the dicts of at most two text keys with text values
FromAnyDicts ==
    {<<>>}
    \cup { <<[key |-> k, value |-> v]>> : k \in {<<"a">>, <<"b">>}, v \in {<<"x">>, <<"y">>} }
    \cup { <<[key |-> <<"a">>, value |-> v], [key |-> <<"b">>, value |-> w]>> :
                v \in {<<"x">>, <<"y">>}, w \in {<<"x">>, <<"y">>} }

\* handler and hook results of every shape; 299 and 600 are integers that are no
\* member of HTTPStatus
FromAnyInputs ==
    { IntValue(n) : n \in {0, 200, 201, 204, 299, 400, 404, 405, 600} }
    \cup { StrValue(t) : t \in Texts({"h", "U+00E9"}, MaxText) }
    \cup { BytesValue(t) : t \in Texts({"x", "y"}, MaxText) }
    \cup { DictValue(d) : d \in FromAnyDicts }
    \cup { ResponseValue(Response_init(status, <<>>, body)) :
                status \in {200, 201, 299, 404}, body \in {<<>>, <<"o", "k">>} }
    \cup { NoneValue, ListValue }

InitCoercion ==
    /\ InitApp /\ InitLifespan /\ InitHttp /\ InitBody /\ InitMultiDict /\ InitHeaders
    /\ InitState
    /\ fa_any \in FromAnyInputs
    /\ fa_ret = [called |-> FALSE]

\* Response.from_any(any)
from_any_call ==
    /\ ~fa_ret.called
    /\ fa_ret' = [called |-> TRUE, result |-> from_any(fa_any)]
    /\ UNCHANGED fa_any
    /\ UNCHANGED <<app_vars, lifespan_vars, http_vars, body_vars, md_vars, hd_vars, rs_vars>>

NextCoercion == from_any_call

SpecCoercion == InitCoercion /\ [][NextCoercion]_vars

\* C12: Response.from_any maps any integer to a response with that status and the
\* status phrase as body, a string to 200 with its UTF-8 bytes, bytes to 200 with that
\* body, a mapping to 200 with content-type application/json and the JSON text as
\* body, a Response to itself, null to 204 with an empty body, and raises for any
\* other shape.  The code does not satisfy this statement.
C12_FromAnyCoercesEveryShape ==
    fa_ret.called =>
        LET res == fa_ret.result
        IN  CASE fa_any.type = "int" ->
                    /\ res.ok
                    /\ res.response.status = fa_any.int
                    /\ fa_any.int \in HTTPStatus_values
                            => res.response.body = Encode(HTTPStatus_phrase(fa_any.int))
              [] fa_any.type = "str" ->
                    res.ok /\ res.response.status = 200
                           /\ res.response.body = Encode(fa_any.str)
              [] fa_any.type = "bytes" ->
                    res.ok /\ res.response.status = 200 /\ res.response.body = fa_any.bytes
              [] fa_any.type = "dict" ->
                    /\ res.ok
                    /\ res.response.status = 200
                    /\ MultiDict__get(res.response.headers, content_type, <<>>)
                            = <<"application/json">>
                    /\ res.response.body = Encode(json_dumps(fa_any.dict))
              [] fa_any.type = "Response" -> res.ok /\ res.response = fa_any.response
              [] fa_any.type = "NoneType" ->
                    res.ok /\ res.response.status = 204 /\ res.response.body = <<>>
              [] OTHER -> ~res.ok

\* ------------------------------------------ requests to parametrized routes
users == <<"/", "u", "s", "e", "r", "s", "/">>
ParamRoutePaths ==
    { users \o <<"{", "i", "d", "}">>, users \o <<id_group>>, users \o <<"4", ".*">> }
ParamRequestPaths == { users \o <<"4", "2">>, users \o <<"{", "i", "d", "}">>, users }
ParamReturnValues == { NoneValue, StrValue(<<"h">>) }

NextParams ==
    \/ \E path \in ParamRoutePaths, methods \in {<<"GET">>, <<"GET", "POST">>} :
          App_route(path, methods)
    \/ lifespan_receive_startup
    \/ lifespan_startup_complete
    \/ \E method \in {"GET", "POST"}, path \in ParamRequestPaths : http_call(method, path, <<>>)
    \/ \E v \in ParamReturnValues : http_dispatch(v)
    \/ http_send_start
    \/ http_send_body

SpecParams == Init /\ [][NextParams]_vars

\* the routing stage is over for the request
dispatched == pc \in {"after", "serialize", "body", "done"}

\* the request is for /users/42 and the first route registered has the given pattern
\* and the request's method
users_42_of(pattern) ==
    /\ dispatched
    /\ request.path = users \o <<"4", "2">>
    /\ route_log # <<>>
    /\ route_log[1].path = pattern
    /\ \E i \in DOMAIN route_log[1].methods : route_log[1].methods[i] = request.method

\* C13, as stated: a route registered as /users/{id} matches the request path
\* /users/42 after startup, and the request handed to the handler has the path
\* parameter id equal to "42".  The code does not satisfy this statement.
C13_BracePatternParams ==
    users_42_of(users \o <<"{", "i", "d", "}">>)
        => /\ handler_calls # <<>>
           /\ request.params = <<[key |-> "id", value |-> <<"4", "2">>]>>

\* C13, amended: a route registered as the regular expression /users/(?P<id>[^/]+)
\* matches /users/42 after startup and the request handed to the handler has the path
\* parameter id equal to "42"; in general the named groups of the matched pattern are
\* the request's path parameters when the handler is invoked; a pattern written
\* /users/{id} matches only the path /users/{id} itself and defines no parameter.
C13_NamedGroupParams ==
    /\ users_42_of(users \o <<id_group>>)
            => /\ Len(handler_calls) = 1
               /\ request.params = <<[key |-> "id", value |-> <<"4", "2">>]>>
    /\ (dispatched /\ handler_calls # <<>>)
            => \A i \in DOMAIN request.params :
                  /\ request.params[i].key = "id"
                  /\ request.params[i].value # <<>>
                  /\ IsPrefix(users, request.path)
                  /\ request.path = users \o request.params[i].value
    /\ (dispatched /\ \A i \in DOMAIN route_log :
                            route_log[i].path = users \o <<"{", "i", "d", "}">>)
            => /\ request.params = <<>>
               /\ handler_calls # <<>> => request.path = users \o <<"{", "i", "d", "}">>
               /\ request.path = users \o <<"4", "2">> => response.status = 404

\* /users/(?P<id>[^/]+) is registered, /users/42 is requested, the handler has run
C13_Witness ==
    /\ users_42_of(users \o <<id_group>>)
    /\ pc = "done"
    /\ handler_calls # <<>>
    /\ request.params = <<[key |-> "id", value |-> <<"4", "2">>]>>

\* --------------------------------------- concurrent http calls and their state
StateKeys == {"a", "b"}

\* a request that is handed scope['state'] itself
Request_state_shared(h, r) == [ref |-> 0, heap |-> h]

\* state=dict(scope.get('state', {})) and Request's `state or {}`: the request gets a
\* dict of its own, object r, holding what scope['state'], object 0, holds now
Request_state(h, r) ==
    [ref |-> r, heap |-> [o \in DOMAIN h \cup {r} |-> IF o = r THEN h[0] ELSE h[o]]]

\* outside the http calls, the lifespan side sets a key of scope['state']
scope_state_set(k) ==
    /\ heap' = [heap EXCEPT ![0] = dict_setitem(@, k, "lifespan")]
    /\ proc' = dict_setitem(proc, k, "lifespan")
    /\ UNCHANGED rq
    /\ UNCHANGED <<app_vars, lifespan_vars, http_vars, body_vars, md_vars, hd_vars, fa_vars>>

\* http call r starts: its Request is built
rq_start(r) ==
    /\ rq[r].pc = "idle"
    /\ heap' = Request_state(heap, r).heap
    /\ rq' = [rq EXCEPT ![r] = [pc |-> "running", state |-> Request_state(heap, r).ref,
                                snapshot |-> heap[0], log |-> <<>>]]
    /\ UNCHANGED proc
    /\ UNCHANGED <<app_vars, lifespan_vars, http_vars, body_vars, md_vars, hd_vars, fa_vars>>

\* a before-hook, the handler or an after-hook of call r does request.state[k] = r
rq_state_set(r, k) ==
    /\ rq[r].pc = "running"
    /\ Len(rq[r].log) < MaxStateWrites
    /\ heap' = [heap EXCEPT ![rq[r].state] = dict_setitem(@, k, ToString(r))]
    /\ rq' = [rq EXCEPT ![r].log = Append(@, [op |-> "set", key |-> k, value |-> ToString(r)])]
    /\ UNCHANGED proc
    /\ UNCHANGED <<app_vars, lifespan_vars, http_vars, body_vars, md_vars, hd_vars, fa_vars>>

\* a before-hook, the handler or an after-hook of call r does del request.state[k]
rq_state_del(r, k) ==
    /\ rq[r].pc = "running"
    /\ Len(rq[r].log) < MaxStateWrites
    /\ dict_contains(heap[rq[r].state], k)
    /\ heap' = [heap EXCEPT ![rq[r].state] = dict_delete(@, k)]
    /\ rq' = [rq EXCEPT ![r].log = Append(@, [op |-> "del", key |-> k])]
    /\ UNCHANGED proc
    /\ UNCHANGED <<app_vars, lifespan_vars, http_vars, body_vars, md_vars, hd_vars, fa_vars>>

\* http call r has sent its frames and returns
rq_return(r) ==
    /\ rq[r].pc = "running"
    /\ rq' = [rq EXCEPT ![r].pc = "done"]
    /\ UNCHANGED <<heap, proc>>
    /\ UNCHANGED <<app_vars, lifespan_vars, http_vars, body_vars, md_vars, hd_vars, fa_vars>>

NextState ==
    \/ \E k \in {"a"} : scope_state_set(k)
    \/ \E r \in Requests : rq_start(r)
    \/ \E r \in Requests, k \in StateKeys : rq_state_set(r, k)
    \/ \E r \in Requests, k \in StateKeys : rq_state_del(r, k)
    \/ \E r \in Requests : rq_return(r)

SpecState == Init /\ [][NextState]_vars

\* a dict after the writes of a log, replayed one by one
RECURSIVE replay(_, _)
replay(d, log) ==
    IF log = <<>> THEN d
    ELSE replay(IF Head(log).op = "set"
                THEN dict_setitem(d, Head(log).key, Head(log).value)
                ELSE dict_delete(d, Head(log).key),
                Tail(log))

started(r) == rq[r].pc # "idle"

\* C14: the state of each request is the snapshot of the process-wide state taken when
\* the request started, changed by that request's own writes only; the process-wide
\* state holds what the lifespan side gave it, whatever keys the hooks and handlers of
\* concurrent requests add, change or remove in their request.state.
C14_RequestStateIsolation ==
    /\ heap[0] = proc
    /\ \A r \in Requests : started(r) =>
            /\ rq[r].state # 0
            /\ heap[rq[r].state] = replay(rq[r].snapshot, rq[r].log)
            /\ \A q \in Requests \ {r} : started(q) => rq[q].state # rq[r].state

\* two running requests started from the same snapshot; one added a key, the other
\* removed and changed keys; the process-wide state still holds only the lifespan's
C14_Witness ==
    /\ rq[1].pc = "running" /\ rq[2].pc = "running"
    /\ rq[1].snapshot = <<[key |-> "a", value |-> "lifespan"]>>
    /\ rq[2].snapshot = rq[1].snapshot
    /\ rq[1].log = <<[op |-> "set", key |-> "b", value |-> "1"]>>
    /\ rq[2].log = <<[op |-> "del", key |-> "a"], [op |-> "set", key |-> "a", value |-> "2"]>>
    /\ heap[0] = <<[key |-> "a", value |-> "lifespan"]>>
    /\ heap[1] # heap[2]

\* ------------------------------------ a user of every MultiDict operation
\* the arguments a MultiDict is constructed from: a dict of single values, a dict of
\* lists, a list of pairs
DictArguments ==
    {[kind |-> "dict", items |-> <<[key |-> k, value |-> v]>>] : k \in Keys, v \in Values}

DictOfListsArguments ==
    {[kind |-> "dict of lists", items |-> <<[key |-> k, value |-> l]>>] :
        k \in Keys, l \in {<<"x">>, <<"x", "y">>}}

PairsArguments ==
    {[kind |-> "pairs", items |-> <<<<k1, "x">>, <<k2, "y">>>>] : k1 \in Keys, k2 \in Keys}

\* MultiDict(mapping): md is constructed, before any other operation
md_init(mapping) ==
    /\ md_log = <<>>
    /\ md_ret.op = ""
    /\ md' = CASE mapping.kind = "dict" -> MultiDict_from_dict(mapping.items)
               [] mapping.kind = "dict of lists" -> MultiDict_from_dict_of_lists(mapping.items)
               [] mapping.kind = "pairs" -> MultiDict_from_pairs(mapping.items)
    /\ md_ret' = [op |-> "init", kind |-> mapping.kind]
    /\ UNCHANGED md_log
    /\ UNCHANGED <<app_vars, lifespan_vars, http_vars, body_vars, hd_vars, fa_vars, rs_vars>>

\* MultiDict(d) or Headers(d) for the MultiDict d
md_copy ==
    /\ md_ret' = [op |-> "copy", result |-> MultiDict_from_MultiDict(md)]
    /\ UNCHANGED <<md, md_log>>
    /\ UNCHANGED <<app_vars, lifespan_vars, http_vars, body_vars, hd_vars, fa_vars, rs_vars>>

\* d.setdefault(k, v)
md_setdefault(k, v) ==
    /\ Len(md_log) < MaxOps
    /\ md' = MultiDict_setdefault(md, k, v)
    /\ md_log' = Append(md_log, [op |-> "setdefault", key |-> k, value |-> v])
    /\ md_ret' = [op |-> "setdefault", key |-> k, value |-> MultiDict_setdefault_result(md, k, v)]
    /\ UNCHANGED <<app_vars, lifespan_vars, http_vars, body_vars, hd_vars, fa_vars, rs_vars>>

\* d.update({k: v})
md_update(k, v) ==
    /\ Len(md_log) < MaxOps
    /\ md' = MultiDict_update(md, <<[key |-> k, value |-> v]>>)
    /\ md_log' = Append(md_log, [op |-> "update", key |-> k, value |-> v])
    /\ md_ret' = [op |-> "update", key |-> k]
    /\ UNCHANGED <<app_vars, lifespan_vars, http_vars, body_vars, hd_vars, fa_vars, rs_vars>>

\* d.pop(k); `had` is what k held when the call was made
md_pop(k) ==
    /\ Len(md_log) < MaxOps
    /\ md' = MultiDict_pop(md, k, None)
    /\ md_log' = Append(md_log, [op |-> "pop", key |-> k])
    /\ md_ret' = [op |-> "pop", key |-> k, had |-> dict_get(md, k, <<>>),
                  result |-> MultiDict_pop_result(md, k, None)]
    /\ UNCHANGED <<app_vars, lifespan_vars, http_vars, body_vars, hd_vars, fa_vars, rs_vars>>

NextMultiDictOps ==
    \/ \E mapping \in DictArguments : md_init(mapping)
    \/ \E mapping \in DictOfListsArguments : md_init(mapping)
    \/ \E mapping \in PairsArguments : md_init(mapping)
    \/ md_copy
    \/ \E k \in Keys, v \in Values : md_setitem(k, v)
    \/ \E k \in Keys, v \in Values : md_setdefault(k, v)
    \/ \E k \in Keys, v \in Values : md_update(k, v)
    \/ \E k \in Keys : md_pop(k)
    \/ \E k \in Keys, default \in {None} : md_get(k, default)
    \/ \E k \in Keys, default \in {default_list} : md__get(k, default)

SpecMultiDictOps == Init /\ [][NextMultiDictOps]_vars

\* C15: constructing a MultiDict (or Headers) from another multimap succeeds and yields
\* a map with the same keys and the same value sequence for each key.
\* The code does not satisfy this statement.
C15_CopyConstruction ==
    md_ret.op = "copy" => (md_ret.result.raised = "" /\ md_ret.result.d = md)

\* C19: after construction and after any sequence of set, setdefault, pop and update
\* operations every key present maps to a non-empty value sequence; pop(k) returns the
\* most recently inserted value of k, leaving the earlier ones when more than one was
\* held and removing the key when exactly one was held.
\* The code does not satisfy this statement.
C19_NonEmptyAndPop ==
    /\ \A i \in DOMAIN md : md[i].value # <<>>
    /\ (md_ret.op = "pop" /\ md_ret.had # <<>>) =>
          /\ md_ret.result = [kind |-> "value", value |-> Last(md_ret.had)]
          /\ IF Len(md_ret.had) > 1
             THEN dict_get(md, md_ret.key, <<>>) = SubSeq(md_ret.had, 1, Len(md_ret.had) - 1)
             ELSE ~dict_contains(md, md_ret.key)

\* C16: any value other than None returned by a before-hook, a false one such as 0, '',
\* b'' or {} included, stops the remaining before-hooks and the route dispatch: every
\* call made after it is an after-hook call, and the response that enters the
\* after-hooks is the one that hook produced.
\* The code does not satisfy this statement.
C16_NonNullBeforeStops ==
    \A i \in DOMAIN calls :
        (calls[i].stage = "before" /\ calls[i].returned # "None") =>
            /\ \A j \in DOMAIN calls : j > i => calls[j].stage = "after"
            /\ pc \in {"after", "serialize", "body", "done"} =>
                  (origin.stage = "before" /\ origin.id = calls[i].id)

\* C17: the first after-hook that returns a value other than None ends the after-hook
\* stage: no later after-hook is called, and the response serialized is the coercion
\* of that value.
\* The code does not satisfy this statement.
C17_FirstNonNullAfterWins ==
    \A i \in DOMAIN calls :
        (calls[i].stage = "after" /\ calls[i].returned # "None") =>
            /\ i = Len(calls)
            /\ pc \in {"serialize", "body", "done"} => replaced # NoneValue

\* C18: once the event with more_body false has been received, read(n) never calls
\* receive again: no read is suspended on the transport after the end of the stream
\* and none fails on an event that is no http.request, so every read call returns.
\* The code does not satisfy this statement.
C18_NoReceiveAfterEnd ==
    /\ ~(transport.ended /\ reader.pc = "awaiting")
    /\ reader.pc # "raised"

\* -------------------------------- responses that carry their own headers
\* header names as a handler or hook writes them
Content_Length == <<"C", "o", "n", "t", "e", "n", "t", "-", "L", "e", "n", "g", "t", "h">>
X_A == <<"X", "-", "A">>

\* Response(200, headers={...}, body=...) objects a handler or hook returns
HeaderedResponses ==
    { ResponseValue(Response_init(200, headers, body)) :
        headers \in { <<>>,
                      <<[key |-> X_A, value |-> "1"]>>,
                      <<[key |-> content_length, value |-> "7"]>>,
                      <<[key |-> Content_Length, value |-> "7"]>>,
                      <<[key |-> Content_Length, value |-> "2"]>> },
        body \in { <<>>, <<"o", "k">> } }

NextHeadersOut ==
    \/ \E path \in RoutePaths, methods \in RouteMethods : App_route(path, methods)
    \/ App_after
    \/ lifespan_receive_startup
    \/ lifespan_startup_complete
    \/ \E path \in RequestPaths : http_call("GET", path, <<>>)
    \/ \E v \in HeaderedResponses \cup {StrValue(<<"h">>)} : http_dispatch(v)
    \/ \E v \in HeaderedResponses \cup {NoneValue} : http_after(v)
    \/ http_send_start
    \/ http_send_body

SpecHeadersOut == Init /\ [][NextHeadersOut]_vars

\* the content-length lines of the start frame that was sent
content_length_lines ==
    SelectSeq(sent[1].headers, LAMBDA line : line[1] = Encode(content_length))

\* C20: every http.response.start frame carries exactly one content-length line, whose
\* value is the length of the body frame sent after it, and every header name in the
\* frame is lowercase, whatever header names the handler or the hooks put on the
\* response.
\* The code does not satisfy this statement.
C20_OneContentLengthLine ==
    sent # <<>> =>
        /\ Len(content_length_lines) = 1
        /\ content_length_lines[1][2] = ToString(Len(response.body))
        /\ Len(sent) = 2 => content_length_lines[1][2] = ToString(Len(sent[2].body))
        /\ \A i \in DOMAIN sent[1].headers : sent[1].headers[i][1] = Lower(sent[1].headers[i][1])

====
